---- MODULE Spec2Model ----
(***************************************************************************)
(* flameglow: the os_stats collector (scripts/os_stats.py) driven by the   *)
(* tick loop of scripts/flameglow.py.                                      *)
(*                                                                         *)
(* Conventions.  Python's None is the empty tuple and a present optional   *)
(* value v is <<v>> (so are the configuration values, which the parser    *)
(* leaves None when a key is missing).  Text that the code searches (interface names, device *)
(* names, directory entry names, labels) is a tuple of characters, so that *)
(* str.startswith, the `in` substring test and slicing are computed.  A    *)
(* numeric token of a pseudo-file is <<n>>; a token that is missing or     *)
(* that int() rejects is the empty tuple.  What a read of a file, a scan   *)
(* of a directory or a run of a utility gives is a record: Failed when the *)
(* call raises, Ok(v) with the content v when it returns.                  *)
(***************************************************************************)
EXTENDS Integers, Sequences, FiniteSets, TLC

None == <<>>
Some(v) == <<v>>
Failed == [ok |-> FALSE]
\* what os.path.exists finds for a sysfs index that is not there
Missing == [ok |-> FALSE, exists |-> FALSE]
Ok(v) == [ok |-> TRUE, v |-> v]

\* str.startswith(p)
StartsWith(s, p) == Len(p) <= Len(s) /\ SubSeq(s, 1, Len(p)) = p

\* p in s, for strings
Contains(s, p) ==
    \E i \in 0..(Len(s) - Len(p)) : SubSeq(s, i + 1, i + Len(p)) = p

\* s[k:], for a string
SliceFrom(s, k) == SubSeq(s, k + 1, Len(s))

---------------------------------------------------------------------------
\* Program constants

SYS_RASPBERRY_PI_HOST_TYPE == "raspberrypi"
SYS_CPU_THERMAL_ZONE_TYPE_PI == "cpu-thermal"
SYS_CPU_THERMAL_ZONE_TYPE_GENERIC == "x86_pkg_temp"
\* ('amdgpu') is a parenthesised string, not a 1-tuple
SYS_GPU_CARD_TYPES == <<"a", "m", "d", "g", "p", "u">>
IO_SECTOR_SIZE == 512
GPU_TYPES == <<"nvidia", "amd", "raspberrypi">>
SUPPORTED_GPU_TYPES == {"nvidia", "amd", "raspberrypi"}
NVME_DEVICE_NAME == <<"n", "v", "m", "e">>
HWMON == <<"h", "w", "m", "o", "n">>

---------------------------------------------------------------------------
\* Bounds of the environment

\* the largest raw counter value a pseudo-file line carries
MaxCounter == 1

Counters == 0..MaxCounter
\* a numeric field of a line: a numeral, or missing / not a numeral
Tokens == {Some(n) : n \in Counters} \cup {None}

VARIABLES
    pc,                 \* position of the main thread
    sysfs,              \* the sysfs tree of the host
    \* flameglow.py module-level names
    STATS_COLLECTION_INTERVAL, HOST_TYPE, GPU_TYPE, NET_INTF_NAME, IO_DEV_NAME,
    gauges,             \* the values held by the Prometheus gauges
    \* os_stats instance attributes
    _host_type, _gpu_type, _net_intf, _io_device,
    _cpu_thermal_zone_id, _nvme_drive_id, _nvme_hwmon_id,
    _gpu_card_id, _gpu_hwmon_id,
    _net_intf_bytes_rec, _net_intf_bytes_trans,
    _net_intf_bytes_rec_prev, _net_intf_bytes_trans_prev,
    _io_device_sectors_read, _io_device_sectors_written,
    _io_device_sectors_read_prev, _io_device_sectors_written_prev,
    avg_cpu_usage, memory_load, uptime,
    net_rec_rate, net_trans_rate, io_bytes_read, io_bytes_written,
    gpu_usage, gpu_memory_usage,
    cpu_package_temp, nvme_composite_temp, gpu_temp,
    \* history of the run, read by the properties only
    tick,               \* what the current (or last) collect_stats call met
    last                \* what the call before it met

confVars == <<sysfs, STATS_COLLECTION_INTERVAL, HOST_TYPE, GPU_TYPE,
              NET_INTF_NAME, IO_DEV_NAME>>
setupVars == <<_host_type, _gpu_type, _net_intf, _io_device>>
idVars == <<_cpu_thermal_zone_id, _nvme_drive_id, _nvme_hwmon_id,
            _gpu_card_id, _gpu_hwmon_id>>
netVars == <<_net_intf_bytes_rec, _net_intf_bytes_trans,
             _net_intf_bytes_rec_prev, _net_intf_bytes_trans_prev,
             net_rec_rate, net_trans_rate>>
ioVars == <<_io_device_sectors_read, _io_device_sectors_written,
            _io_device_sectors_read_prev, _io_device_sectors_written_prev,
            io_bytes_read, io_bytes_written>>
procVars == <<avg_cpu_usage, memory_load, uptime>>
gpuVars == <<gpu_usage, gpu_memory_usage, gpu_temp>>
tempVars == <<cpu_package_temp, nvme_composite_temp>>
histVars == <<tick, last>>

vars == <<pc, confVars, gauges, setupVars, idVars, netVars, ioVars,
          procVars, gpuVars, tempVars, histVars>>

---------------------------------------------------------------------------
\* Source Locator: the three sysfs scans run by the constructor.
\* Each returns [out |-> "ok" | "raise" | "hang", ...identifiers...].

\* a scan that looks for the generic label whatever the host type
RECURSIVE ScanThermalZonesGeneric(_, _, _)
ScanThermalZonesGeneric(zones, host, thermal_zone_no) ==
    IF thermal_zone_no >= Len(zones) \/ zones[thermal_zone_no + 1] = Missing
    THEN [out |-> "ok", id |-> None]
    ELSE IF ~zones[thermal_zone_no + 1].ok
         THEN [out |-> "raise", id |-> None]
         ELSE IF zones[thermal_zone_no + 1].v = SYS_CPU_THERMAL_ZONE_TYPE_GENERIC
              THEN [out |-> "ok", id |-> Some(thermal_zone_no)]
              ELSE ScanThermalZonesGeneric(zones, host, thermal_zone_no + 1)

\* zones[i+1] is Missing when /sys/class/thermal/thermal_zone<i> does not
\* exist (as do the indices past the end), and else what reading its type
\* file gives
RECURSIVE ScanThermalZones(_, _, _)
ScanThermalZones(zones, host, thermal_zone_no) ==
    IF thermal_zone_no >= Len(zones) \/ zones[thermal_zone_no + 1] = Missing
    THEN [out |-> "ok", id |-> None]
    ELSE IF ~zones[thermal_zone_no + 1].ok
         THEN [out |-> "raise", id |-> None]
         ELSE LET detected_zone_type == zones[thermal_zone_no + 1].v IN
              IF host # Some(SYS_RASPBERRY_PI_HOST_TYPE)
              THEN IF detected_zone_type = SYS_CPU_THERMAL_ZONE_TYPE_GENERIC
                   THEN [out |-> "ok", id |-> Some(thermal_zone_no)]
                   ELSE ScanThermalZones(zones, host, thermal_zone_no + 1)
              ELSE IF detected_zone_type = SYS_CPU_THERMAL_ZONE_TYPE_PI
                   THEN [out |-> "ok", id |-> Some(thermal_zone_no)]
                   ELSE ScanThermalZones(zones, host, thermal_zone_no + 1)

detect_cpu_thermal_zone_path(zones, host) == ScanThermalZones(zones, host, 0)

\* the first entry of a scanned directory that is a hwmon directory with a
\* temp1_input file; 0 when there is none
RECURSIVE FirstNvmeHwmon(_, _)
FirstNvmeHwmon(entries, k) ==
    IF k > Len(entries) THEN 0
    ELSE IF /\ StartsWith(entries[k].name, HWMON)
            /\ entries[k].is_dir
            /\ entries[k].temp1_input
         THEN k
         ELSE FirstNvmeHwmon(entries, k + 1)

\* drives[i+1] is Missing when /sys/class/nvme/nvme<i> does not exist, and
\* else what os.scandir of it gives
RECURSIVE ScanNvme(_, _)
ScanNvme(drives, nvme_no) ==
    IF nvme_no >= Len(drives) \/ drives[nvme_no + 1] = Missing
    THEN [out |-> "ok", drive |-> None, hwmon |-> None]
    ELSE IF ~drives[nvme_no + 1].ok
         THEN [out |-> "raise", drive |-> None, hwmon |-> None]
         ELSE LET entries == drives[nvme_no + 1].v
                  k == FirstNvmeHwmon(entries, 1) IN
              IF k # 0
              THEN [out |-> "ok", drive |-> Some(nvme_no),
                    hwmon |-> Some(SliceFrom(entries[k].name, 5))]
              ELSE ScanNvme(drives, nvme_no + 1)

detect_nvme_path(drives) == ScanNvme(drives, 0)

\* One pass over the hwmon listing of a card: "match" with the entry's index,
\* "raise" when a name file cannot be read, "none" when the listing ends.
RECURSIVE ScanGpuHwmon(_, _)
ScanGpuHwmon(entries, k) ==
    IF k > Len(entries) THEN [res |-> "none", k |-> 0]
    ELSE IF StartsWith(entries[k].name, HWMON) /\ entries[k].is_dir
         THEN IF ~entries[k].label.ok
              THEN [res |-> "raise", k |-> k]
              ELSE IF Contains(SYS_GPU_CARD_TYPES, entries[k].label.v)
                   THEN [res |-> "match", k |-> k]
                   ELSE ScanGpuHwmon(entries, k + 1)
         ELSE ScanGpuHwmon(entries, k + 1)

\* cards[i+1] is what os.scandir('sys/class/drm/card<i>/device/hwmon') yields
\* for the cards /sys/class/drm/card<i> that exist: the path handed to scandir
\* is relative, so the scan raises unless the working directory is the
\* root.  card_no is never advanced: a card without a match is scanned again.
detect_gpu_path(cards) ==
    IF Len(cards) = 0 \/ cards[1] = Missing
    THEN [out |-> "ok", card |-> None, hwmon |-> None]
    ELSE IF ~cards[1].ok
         THEN [out |-> "raise", card |-> None, hwmon |-> None]
         ELSE LET r == ScanGpuHwmon(cards[1].v, 1) IN
              CASE r.res = "match" ->
                     [out |-> "ok", card |-> Some(0),
                      hwmon |-> Some(SliceFrom(cards[1].v[r.k].name, 5))]
                [] r.res = "raise" ->
                     [out |-> "raise", card |-> None, hwmon |-> None]
                [] OTHER ->
                     [out |-> "hang", card |-> None, hwmon |-> None]

---------------------------------------------------------------------------
\* Differential Sampler: the steps of collect_stats as functions of what the
\* step reads and of the fields it uses.

MEMTOTAL == <<"M", "e", "m", "T", "o", "t", "a", "l">>
MEMAVAILABLE == <<"M", "e", "m", "A", "v", "a", "i", "l", "a", "b", "l", "e">>

\* memory_total / memory_available start as the int 0 and become the str
\* token of the line
IntZero == [type |-> "int", v |-> 0]
StrTok(t) == [type |-> "str", v |-> t]

\* x != 0
NotZero(x) == ~(x.type = "int" /\ x.v = 0)

\* int(x) of such a value: [raise |-> ..., v |-> ...]
IntOf(x) ==
    IF x.type = "int" THEN [raise |-> FALSE, v |-> x.v]
    ELSE IF x.v = None THEN [raise |-> TRUE, v |-> 0]
    ELSE [raise |-> FALSE, v |-> x.v[1]]

\* the for loop over the lines of /proc/meminfo; a line is
\* [label |-> text before the colon, value |-> first token after it]
RECURSIVE ScanMeminfo(_, _, _, _)
ScanMeminfo(lines, k, memory_total, memory_available) ==
    IF k > Len(lines)
    THEN [raise |-> FALSE, total |-> memory_total, available |-> memory_available]
    ELSE LET line == lines[k]
             isTotal == StartsWith(line.label, MEMTOTAL)
             isAvail == ~isTotal /\ StartsWith(line.label, MEMAVAILABLE)
         IN  IF (isTotal \/ isAvail) /\ line.value = None
             \* split()[0] of an empty value
             THEN [raise |-> TRUE, total |-> memory_total,
                   available |-> memory_available]
             ELSE LET t == IF isTotal THEN StrTok(line.value) ELSE memory_total
                      a == IF isAvail THEN StrTok(line.value)
                           ELSE memory_available
                  IN  IF NotZero(t) /\ NotZero(a)
                      THEN [raise |-> FALSE, total |-> t, available |-> a]
                      ELSE ScanMeminfo(lines, k + 1, t, a)

\* [raise, memory_load]
MemoryLoad(lines) ==
    LET r == ScanMeminfo(lines, 1, IntZero, IntZero) IN
    IF r.raise \/ IntOf(r.total).raise \/ IntOf(r.available).raise
    THEN [raise |-> TRUE, memory_load |-> 0]
    ELSE [raise |-> FALSE,
          memory_load |-> IntOf(r.total).v - IntOf(r.available).v]

\* int(float(x)) of a non-negative decimal given in tenths
IntOfFloat(tenths) == tenths \div 10

\* index of the first line of /proc/net/dev whose text, left-stripped, starts
\* with the interface name; 0 when there is none.  A line is
\* [name |-> text before the colon, rx |-> field 0, tx |-> field 8 after it]
RECURSIVE FirstNetLine(_, _, _)
FirstNetLine(lines, intf, k) ==
    IF k > Len(lines) THEN 0
    ELSE IF StartsWith(lines[k].name, intf) THEN k
    ELSE FirstNetLine(lines, intf, k + 1)

\* the for loop over /proc/net/dev: [raise, rec, trans, found]
NetScan(lines, intf, rec, trans) ==
    IF intf = None
    THEN \* str.startswith(None) is a TypeError on the first line
         [raise |-> Len(lines) > 0, rec |-> rec, trans |-> trans,
          found |-> FALSE]
    ELSE LET k == FirstNetLine(lines, intf[1], 1) IN
         IF k = 0
         THEN [raise |-> FALSE, rec |-> rec, trans |-> trans, found |-> FALSE]
         ELSE IF lines[k].rx = None
         THEN [raise |-> TRUE, rec |-> rec, trans |-> trans, found |-> TRUE]
         ELSE IF lines[k].tx = None
         THEN [raise |-> TRUE, rec |-> lines[k].rx[1], trans |-> trans,
               found |-> TRUE]
         ELSE [raise |-> FALSE, rec |-> lines[k].rx[1],
               trans |-> lines[k].tx[1], found |-> TRUE]

\* index of the first line of /proc/diskstats that contains the device name;
\* a line is [name |-> field 2, rd |-> field 5, wr |-> field 9] (the other
\* fields are numerals, and a device name has a letter in it)
RECURSIVE FirstIoLine(_, _, _)
FirstIoLine(lines, dev, k) ==
    IF k > Len(lines) THEN 0
    ELSE IF Contains(lines[k].name, dev) THEN k
    ELSE FirstIoLine(lines, dev, k + 1)

\* the for loop over /proc/diskstats: [raise, read, written, found]
IoScan(lines, dev, read, written) ==
    IF dev = None
    THEN \* `None in line` is a TypeError on the first line
         [raise |-> Len(lines) > 0, read |-> read, written |-> written,
          found |-> FALSE]
    ELSE LET k == FirstIoLine(lines, dev[1], 1) IN
         IF k = 0
         THEN [raise |-> FALSE, read |-> read, written |-> written,
               found |-> FALSE]
         ELSE IF lines[k].rd = None
         THEN [raise |-> TRUE, read |-> read, written |-> written,
               found |-> TRUE]
         ELSE IF lines[k].wr = None
         THEN [raise |-> TRUE, read |-> lines[k].rd[1], written |-> written,
               found |-> TRUE]
         ELSE [raise |-> FALSE, read |-> lines[k].rd[1],
               written |-> lines[k].wr[1], found |-> TRUE]

\* the rates left in the unit of the counters
DeltaInCounterUnits(cur_a, cur_b, prev_a, prev_b, unit) ==
    IF prev_a = None /\ prev_b = None
    THEN [raise |-> FALSE, a |-> 0, b |-> 0]
    ELSE IF prev_a = None \/ prev_b = None
    THEN [raise |-> TRUE, a |-> 0, b |-> 0]
    ELSE [raise |-> FALSE, a |-> cur_a - prev_a[1], b |-> cur_b - prev_b[1]]

\* "won't do a delta on the first pass, so return 0": the two differences of
\* a counter pair against its stored previous pair, each times unit
\* [raise, a, b]; a None operand of the subtraction is a TypeError
Delta(cur_a, cur_b, prev_a, prev_b, unit) ==
    IF prev_a = None /\ prev_b = None
    THEN [raise |-> FALSE, a |-> 0, b |-> 0]
    ELSE IF prev_a = None \/ prev_b = None
    THEN [raise |-> TRUE, a |-> 0, b |-> 0]
    ELSE [raise |-> FALSE, a |-> (cur_a - prev_a[1]) * unit,
          b |-> (cur_b - prev_b[1]) * unit]

---------------------------------------------------------------------------
\* The process: flameglow.py's main thread and the collector it drives.

\* a gauge holds a float: the fraction num/den
Float(v) == [num |-> v, den |-> 1]
\* x / d for d > 0
Divide(x, d) ==
    IF x % d = 0 THEN [num |-> x \div d, den |-> 1] ELSE [num |-> x, den |-> d]

\* The history record of a collect_stats call that has not read anything yet:
\*   n              1 for the first call, 2 for a later one (0: none yet)
\*   clean          no earlier call raised
\*   failed         this call raised
\*   step           the step the call reached
\*   net_base       the stored previous network counters when the call began
\*   io_base        the stored previous sector counters when the call began
\*   load, up       field 0 of /proc/loadavg and of /proc/uptime as read
\*   mem_missing    /proc/meminfo was read and lacks MemTotal or MemAvailable
\*   net            the counters of the line whose name is the interface name
\*   net_cap        the counters the scan of /proc/net/dev parsed
\*   io_cap         the counters the scan of /proc/diskstats parsed
\*   sensor_failed  the sensor file whose read raised
\*   util_failed    the GPU utility, or the parse of its output, failed
\*   others         the fields the GPU step does not assign, as it found them
\*   pub_failed     the publication of the call's snapshot raised
\*   slept          the driver slept after the call
\*   interrupted    where the main thread was when a stop signal ended the run
\*   lsblk          what the utility run by set_io_device gave (until the
\*                  first call begins)
FreshTick(n, clean, net_base, io_base) ==
    [n |-> n, clean |-> clean, failed |-> FALSE, step |-> "none",
     pub_failed |-> FALSE, slept |-> FALSE, interrupted |-> "none",
     lsblk |-> None,
     net_base |-> net_base, io_base |-> io_base,
     load |-> None, mem_missing |-> FALSE, up |-> None,
     net |-> None, net_cap |-> None, io_cap |-> None,
     sensor_failed |-> "none", util_failed |-> FALSE, others |-> None]

\* what is kept of it when the next call begins
Kept(t) ==
    [failed |-> t.failed, pub_failed |-> t.pub_failed, slept |-> t.slept,
     step |-> t.step, net_base |-> t.net_base,
     io_base |-> t.io_base, net |-> t.net, net_cap |-> t.net_cap,
     io_cap |-> t.io_cap]

\* State after flameglow.py lines 41-82 (configuration parsed, gauges created,
\* exposition thread started) with the attribute values that the first lines
\* of os_stats.__init__ assign.  A key that the file lacks is None: only a
\* missing section or a value getint rejects reaches the except of line 55.
\* With io_device_name None the test of line 75 raises and the process ends.
Init(confs, trees) ==
    /\ sysfs \in trees
    /\ \E c \in confs :
         /\ pc = IF c.io_dev = None THEN "start_raised" ELSE "start"
         /\ STATS_COLLECTION_INTERVAL = c.interval
         /\ HOST_TYPE = c.host_type
         /\ GPU_TYPE = c.gpu_type
         /\ NET_INTF_NAME = c.net_intf
         /\ IO_DEV_NAME = c.io_dev
         /\ gauges = [avg_cpu_usage |-> Some(Float(0)),
                      memory_load |-> Some(Float(0)),
                      uptime |-> Some(Float(0)),
                      rec_rate |-> Some(Float(0)),
                      trans_rate |-> Some(Float(0)),
                      io_read_rate |-> Some(Float(0)),
                      io_write_rate |-> Some(Float(0)),
                      cpu_package_temp |-> Some(Float(0)),
                      gpu_temp |-> IF c.gpu_type # None
                                      /\ c.gpu_type[1] \in SUPPORTED_GPU_TYPES
                                   THEN Some(Float(0)) ELSE None,
                      nvme_composite_temp |->
                          IF c.io_dev # None
                             /\ Contains(c.io_dev[1], NVME_DEVICE_NAME)
                          THEN Some(Float(0)) ELSE None]
    /\ _host_type = None /\ _gpu_type = None
    /\ _net_intf = None /\ _io_device = None
    /\ _cpu_thermal_zone_id = None
    /\ _nvme_drive_id = None /\ _nvme_hwmon_id = None
    /\ _gpu_card_id = None /\ _gpu_hwmon_id = None
    /\ _net_intf_bytes_rec = 0 /\ _net_intf_bytes_trans = 0
    /\ _net_intf_bytes_rec_prev = None /\ _net_intf_bytes_trans_prev = None
    /\ _io_device_sectors_read = 0 /\ _io_device_sectors_written = 0
    /\ _io_device_sectors_read_prev = None
    /\ _io_device_sectors_written_prev = None
    /\ avg_cpu_usage = 0 /\ memory_load = 0 /\ uptime = 0
    /\ net_rec_rate = 0 /\ net_trans_rate = 0
    /\ io_bytes_read = 0 /\ io_bytes_written = 0
    /\ gpu_usage = 0 /\ gpu_memory_usage = 0
    /\ cpu_package_temp = 0 /\ nvme_composite_temp = 0 /\ gpu_temp = 0
    /\ tick = FreshTick(0, TRUE, <<None, None>>, <<None, None>>)
    /\ last = Kept(FreshTick(0, TRUE, <<None, None>>, <<None, None>>))

\* a constructor that scans /sys/class/drm whatever the GPU vendor
ConstructEveryVendor ==
    /\ pc = "start"
    /\ LET t == sysfs IN
         LET cpu == detect_cpu_thermal_zone_path(t.thermal, HOST_TYPE)
             nvme == detect_nvme_path(t.nvme)
             gpu == detect_gpu_path(t.drm)
         IN  /\ _host_type' = HOST_TYPE
             /\ _gpu_type' = GPU_TYPE
             /\ _cpu_thermal_zone_id' = cpu.id
             /\ IF cpu.out = "ok"
                THEN /\ _nvme_drive_id' = nvme.drive
                     /\ _nvme_hwmon_id' = nvme.hwmon
                ELSE UNCHANGED <<_nvme_drive_id, _nvme_hwmon_id>>
             /\ IF cpu.out = "ok" /\ nvme.out = "ok"
                THEN /\ _gpu_card_id' = gpu.card
                     /\ _gpu_hwmon_id' = gpu.hwmon
                ELSE UNCHANGED <<_gpu_card_id, _gpu_hwmon_id>>
             /\ pc' = IF cpu.out # "ok" \/ nvme.out # "ok" THEN "init_raised"
                      ELSE IF gpu.out = "ok" THEN "constructed"
                      ELSE IF gpu.out = "raise" THEN "init_raised"
                      ELSE "init_hung"
    /\ UNCHANGED <<confVars, gauges, _net_intf, _io_device, netVars, ioVars,
                   procVars, gpuVars, tempVars, histVars>>

\* os_stats.__init__ from line 95 on, called at flameglow.py line 84: the
\* three scans in order; an exception of a scan leaves the constructor and
\* the process, a scan that does not end keeps the process in it.
Construct ==
    /\ pc = "start"
    /\ LET t == sysfs IN
         LET cpu == detect_cpu_thermal_zone_path(t.thermal, HOST_TYPE)
             nvme == detect_nvme_path(t.nvme)
             gpu == detect_gpu_path(t.drm)
             isAmd == GPU_TYPE = Some(GPU_TYPES[2])
         IN  /\ _host_type' = HOST_TYPE
             /\ _gpu_type' = GPU_TYPE
             /\ _cpu_thermal_zone_id' = cpu.id
             /\ IF cpu.out = "ok"
                THEN /\ _nvme_drive_id' = nvme.drive
                     /\ _nvme_hwmon_id' = nvme.hwmon
                ELSE UNCHANGED <<_nvme_drive_id, _nvme_hwmon_id>>
             /\ IF cpu.out = "ok" /\ nvme.out = "ok" /\ isAmd
                THEN /\ _gpu_card_id' = gpu.card
                     /\ _gpu_hwmon_id' = gpu.hwmon
                ELSE UNCHANGED <<_gpu_card_id, _gpu_hwmon_id>>
             /\ pc' = IF cpu.out # "ok" \/ nvme.out # "ok" THEN "init_raised"
                      ELSE IF ~isAmd \/ gpu.out = "ok" THEN "constructed"
                      ELSE IF gpu.out = "raise" THEN "init_raised"
                      ELSE "init_hung"
    /\ UNCHANGED <<confVars, gauges, _net_intf, _io_device, netVars, ioVars,
                   procVars, gpuVars, tempVars, histVars>>

\* flameglow.py line 85 calls os_stats_inst.set_net_intf_name, which os_stats
\* does not define: an AttributeError outside any try ends the process.
MainSetters ==
    /\ pc = "constructed"
    /\ pc' = "crashed"
    /\ UNCHANGED <<confVars, gauges, setupVars, idVars, netVars, ioVars,
                   procVars, gpuVars, tempVars, histVars>>

\* os_stats.set_network_interface, called with the configured name
set_network_interface ==
    /\ pc = "constructed"
    /\ _net_intf' = NET_INTF_NAME
    /\ pc' = "net_set"
    /\ UNCHANGED <<confVars, gauges, _host_type, _gpu_type, _io_device, idVars,
                   netVars, ioVars, procVars, gpuVars, tempVars, histVars>>

\* the for loop of set_io_device over lsblk's blockdevices, each
\* [name |-> ..., serial |-> ...]: the name of the first whose serial is io_device
RECURSIVE FirstSerial(_, _, _)
FirstSerial(blockdevices, io_device, k) ==
    IF k > Len(blockdevices) THEN 0
    ELSE IF blockdevices[k].serial = io_device THEN k
    ELSE FirstSerial(blockdevices, io_device, k + 1)

\* a setter that keeps only a name it resolved from a serial number
set_io_device_resolved_only(lsblks) ==
    /\ pc = "net_set"
    /\ \E lsblk \in lsblks :
         /\ IF lsblk.ok /\ FirstSerial(lsblk.v, IO_DEV_NAME, 1) # 0
            THEN _io_device' =
                   Some(lsblk.v[FirstSerial(lsblk.v, IO_DEV_NAME, 1)].name)
            ELSE UNCHANGED _io_device
         /\ tick' = [tick EXCEPT !.lsblk = Some(lsblk)]
    /\ pc' = "loop"
    /\ UNCHANGED <<confVars, gauges, _host_type, _gpu_type, _net_intf, idVars,
                   netVars, ioVars, procVars, gpuVars, tempVars, last>>

\* os_stats.set_io_device, called with the configured name; lsblk is what the
\* run of the utility and json.loads give: Failed when either raised (the
\* bare except of line 130 passes), else the list under 'blockdevices'
set_io_device(lsblks) ==
    /\ pc = "net_set"
    /\ \E lsblk \in lsblks :
         /\ IF lsblk.ok /\ FirstSerial(lsblk.v, IO_DEV_NAME, 1) # 0
            THEN _io_device' =
                   Some(lsblk.v[FirstSerial(lsblk.v, IO_DEV_NAME, 1)].name)
            ELSE _io_device' = IO_DEV_NAME
         /\ tick' = [tick EXCEPT !.lsblk = Some(lsblk)]
    /\ pc' = "loop"
    /\ UNCHANGED <<confVars, gauges, _host_type, _gpu_type, _net_intf, idVars,
                   netVars, ioVars, procVars, gpuVars, tempVars, last>>

\* an exception that no clause of the loop catches
Uncaught == "crashed"

\* where an exception raised inside the try of the loop takes the main
\* thread: the bare except of flameglow.py line 115
Caught == "except"

\* an exception leaves collect_stats (logged and re-raised at lines 413-417)
\* and reaches the except clause of the loop
Raised(t) == [t EXCEPT !.failed = TRUE]

\* The loop test of flameglow.py line 90 and the first step of collect_stats,
\* lines 244-248.  A file is Ok(the whitespace-separated fields) or Failed.
ReadLoadavg(files) ==
    /\ pc = "loop"
    /\ \E f \in files :
         LET t == [FreshTick(IF tick.n < 2 THEN tick.n + 1 ELSE 2,
                             tick.clean /\ ~tick.failed,
                             <<_net_intf_bytes_rec_prev,
                               _net_intf_bytes_trans_prev>>,
                             <<_io_device_sectors_read_prev,
                               _io_device_sectors_written_prev>>)
                     EXCEPT !.step = "loadavg"]
         IN  /\ last' = Kept(tick)
             /\ IF f.ok /\ Len(f.v) > 0
                THEN /\ avg_cpu_usage' = f.v[1]
                     /\ tick' = [t EXCEPT !.load = Some(f.v[1])]
                     /\ pc' = "meminfo"
                ELSE /\ UNCHANGED avg_cpu_usage
                     /\ tick' = Raised(t)
                     /\ pc' = Caught
    /\ UNCHANGED <<confVars, gauges, setupVars, idVars, netVars, ioVars,
                   memory_load, uptime, gpuVars, tempVars>>

\* whether some line of /proc/meminfo carries the label (history only)
HasLabel(lines, label) == \E k \in 1..Len(lines) : lines[k].label = label

\* lines 250-265
ReadMeminfo(files) ==
    /\ pc = "meminfo"
    /\ \E f \in files :
         LET seen == [tick EXCEPT !.step = "meminfo", !.mem_missing =
                          f.ok /\ ~(HasLabel(f.v, MEMTOTAL)
                                    /\ HasLabel(f.v, MEMAVAILABLE))]
         IN  IF f.ok /\ ~MemoryLoad(f.v).raise
             THEN /\ memory_load' = MemoryLoad(f.v).memory_load
                  /\ pc' = "uptime"
                  /\ tick' = seen
             ELSE /\ UNCHANGED memory_load
                  /\ tick' = Raised(seen)
                  /\ pc' = Caught
    /\ UNCHANGED <<confVars, gauges, setupVars, idVars, netVars, ioVars,
                   avg_cpu_usage, uptime, gpuVars, tempVars, last>>

\* lines 267-271; field 0 is a decimal, given in tenths of a second, or a
\* token float() rejects
ReadUptime(files) ==
    /\ pc = "uptime"
    /\ \E f \in files :
         IF f.ok /\ Len(f.v) > 0 /\ f.v[1] # None
         THEN /\ uptime' = IntOfFloat(f.v[1][1])
              /\ pc' = "net_dev"
              /\ tick' = [tick EXCEPT !.step = "uptime", !.up = f.v[1]]
         ELSE /\ UNCHANGED uptime
              /\ tick' = Raised([tick EXCEPT !.step = "uptime"])
              /\ pc' = Caught
    /\ UNCHANGED <<confVars, gauges, setupVars, idVars, netVars, ioVars,
                   avg_cpu_usage, memory_load, gpuVars, tempVars, last>>

\* the counters of the line of /proc/net/dev whose leading token equals the
\* interface name, when there is one with two numerals (history only)
RECURSIVE LineOf(_, _, _)
LineOf(lines, intf, k) ==
    IF k > Len(lines) THEN None
    ELSE IF lines[k].name = intf /\ lines[k].rx # None /\ lines[k].tx # None
    THEN Some(<<lines[k].rx[1], lines[k].tx[1]>>)
    ELSE LineOf(lines, intf, k + 1)

\* lines 273-301
ReadNetDev(files) ==
    /\ pc = "net_dev"
    /\ \E f \in files :
         IF ~f.ok
         THEN /\ UNCHANGED netVars
              /\ tick' = Raised([tick EXCEPT !.step = "net_dev"])
              /\ pc' = Caught
         ELSE LET scan == NetScan(f.v, _net_intf, _net_intf_bytes_rec,
                                  _net_intf_bytes_trans)
                  d == Delta(scan.rec, scan.trans, _net_intf_bytes_rec_prev,
                             _net_intf_bytes_trans_prev, 1)
                  seen == [tick EXCEPT
                             !.step = "net_dev",
                             !.net = IF _net_intf = None THEN None
                                     ELSE LineOf(f.v, _net_intf[1], 1),
                             !.net_cap = IF scan.found /\ ~scan.raise
                                         THEN Some(<<scan.rec, scan.trans>>)
                                         ELSE None]
              IN  /\ _net_intf_bytes_rec' = scan.rec
                  /\ _net_intf_bytes_trans' = scan.trans
                  /\ IF scan.raise \/ d.raise
                     THEN /\ UNCHANGED <<net_rec_rate, net_trans_rate,
                                         _net_intf_bytes_rec_prev,
                                         _net_intf_bytes_trans_prev>>
                          /\ tick' = Raised(seen)
                          /\ pc' = Caught
                     ELSE /\ net_rec_rate' = d.a
                          /\ net_trans_rate' = d.b
                          /\ _net_intf_bytes_rec_prev' = Some(scan.rec)
                          /\ _net_intf_bytes_trans_prev' = Some(scan.trans)
                          /\ tick' = seen
                          /\ pc' = "io_dev"
    /\ UNCHANGED <<confVars, gauges, setupVars, idVars, ioVars, procVars,
                   gpuVars, tempVars, last>>

\* lines 303-334
ReadIoDev(files) ==
    /\ pc = "io_dev"
    /\ \E f \in files :
         IF ~f.ok
         THEN /\ UNCHANGED ioVars
              /\ tick' = Raised([tick EXCEPT !.step = "io_dev"])
              /\ pc' = Caught
         ELSE LET scan == IoScan(f.v, _io_device, _io_device_sectors_read,
                                 _io_device_sectors_written)
                  d == Delta(scan.read, scan.written,
                             _io_device_sectors_read_prev,
                             _io_device_sectors_written_prev, IO_SECTOR_SIZE)
                  seen == [tick EXCEPT
                             !.step = "io_dev",
                             !.io_cap = IF scan.found /\ ~scan.raise
                                        THEN Some(<<scan.read, scan.written>>)
                                        ELSE None]
              IN  /\ _io_device_sectors_read' = scan.read
                  /\ _io_device_sectors_written' = scan.written
                  /\ IF scan.raise \/ d.raise
                     THEN /\ UNCHANGED <<io_bytes_read, io_bytes_written,
                                         _io_device_sectors_read_prev,
                                         _io_device_sectors_written_prev>>
                          /\ tick' = Raised(seen)
                          /\ pc' = Caught
                     ELSE /\ io_bytes_read' = d.a
                          /\ io_bytes_written' = d.b
                          /\ _io_device_sectors_read_prev' = Some(scan.read)
                          /\ _io_device_sectors_written_prev' =
                                 Some(scan.written)
                          /\ tick' = seen
                          /\ pc' = "cpu_temp"
    /\ UNCHANGED <<confVars, gauges, setupVars, idVars, netVars, procVars,
                   gpuVars, tempVars, last>>

\* a thermal zone that is read whether or not one was detected
AnyThermalZone == TRUE

\* line 337: if self._cpu_thermal_zone_id is not None
HasThermalZone == _cpu_thermal_zone_id # None

\* lines 336-343; the file holds one token
ReadCpuTemp(files) ==
    /\ pc = "cpu_temp"
    /\ IF HasThermalZone
       THEN \E f \in files :
              IF f.ok /\ f.v # None
              THEN /\ cpu_package_temp' = f.v[1]
                   /\ pc' = "nvme_temp"
                   /\ tick' = [tick EXCEPT !.step = "cpu_temp"]
              ELSE /\ UNCHANGED cpu_package_temp
                   /\ tick' = Raised([tick EXCEPT !.step = "cpu_temp",
                                                  !.sensor_failed = "cpu"])
                   /\ pc' = Caught
       ELSE /\ pc' = "nvme_temp"
            /\ tick' = [tick EXCEPT !.step = "cpu_temp"]
            /\ UNCHANGED cpu_package_temp
    /\ UNCHANGED <<confVars, gauges, setupVars, idVars, netVars, ioVars,
                   procVars, gpuVars, nvme_composite_temp, last>>

\* lines 345-355
ReadNvmeTemp(files) ==
    /\ pc = "nvme_temp"
    /\ IF _nvme_drive_id # None /\ _nvme_hwmon_id # None
       THEN \E f \in files :
              IF f.ok /\ f.v # None
              THEN /\ nvme_composite_temp' = f.v[1]
                   /\ pc' = "gpu"
                   /\ tick' = [tick EXCEPT !.step = "nvme_temp"]
              ELSE /\ UNCHANGED nvme_composite_temp
                   /\ tick' = Raised([tick EXCEPT !.step = "nvme_temp",
                                                  !.sensor_failed = "nvme"])
                   /\ pc' = Caught
       ELSE /\ pc' = "gpu"
            /\ tick' = [tick EXCEPT !.step = "nvme_temp"]
            /\ UNCHANGED nvme_composite_temp
    /\ UNCHANGED <<confVars, gauges, setupVars, idVars, netVars, ioVars,
                   procVars, gpuVars, cpu_package_temp, last>>

\* the try body of lines 361-369 on the fields of nvidia-smi's line (split on
\* ', '; the first token of field 0 and of field 1, the whole of field 2):
\* the three assignments in order, up to the first that raises
\* [raise, usage, memory, temp]
NvidiaParse(out, usage, memory, temp) ==
    IF out[1] = None
    THEN [raise |-> TRUE, usage |-> usage, memory |-> memory, temp |-> temp]
    ELSE IF Len(out) < 2 \/ out[2] = None
    THEN [raise |-> TRUE, usage |-> out[1][1], memory |-> memory,
          temp |-> temp]
    ELSE IF Len(out) < 3 \/ out[3] = None
    THEN [raise |-> TRUE, usage |-> out[1][1], memory |-> out[2][1],
          temp |-> temp]
    ELSE [raise |-> FALSE, usage |-> out[1][1], memory |-> out[2][1],
          temp |-> out[3][1] * 1000]

\* a failure that leaves the three fields as they were
NvidiaStatsKeepsFields(smi, usage, memory, temp) ==
    IF smi.ok /\ ~NvidiaParse(smi.v, usage, memory, temp).raise
    THEN LET r == NvidiaParse(smi.v, usage, memory, temp) IN
         [usage |-> r.usage, memory |-> r.memory, temp |-> r.temp]
    ELSE [usage |-> usage, memory |-> memory, temp |-> temp]

\* lines 358-378: [usage, memory, temp] after the try / except
NvidiaStats(smi, usage, memory, temp) ==
    IF smi.ok /\ ~NvidiaParse(smi.v, usage, memory, temp).raise
    THEN LET r == NvidiaParse(smi.v, usage, memory, temp) IN
         [usage |-> r.usage, memory |-> r.memory, temp |-> r.temp]
    ELSE [usage |-> 0, memory |-> 0, temp |-> 0]

\* lines 393-406: gpu_temp after the try / except; vcgencmd's value is a
\* decimal given in tenths of a degree, or a token float() rejects
RpiTemp(vc) ==
    IF vc.ok /\ vc.v # None THEN vc.v[1] * 100 ELSE 0

\* the fields of the snapshot that the GPU step does not assign (history only)
Others ==
    <<avg_cpu_usage, memory_load, uptime, net_rec_rate, net_trans_rate,
      io_bytes_read, io_bytes_written, cpu_package_temp, nvme_composite_temp>>

\* lines 357-411: the GPU step, by configured vendor
ReadGpu(smis, files, vcs) ==
    /\ pc = "gpu"
    /\ IF _gpu_type = Some(GPU_TYPES[1])
       THEN \E smi \in smis :
              LET r == NvidiaStats(smi, gpu_usage, gpu_memory_usage, gpu_temp)
              IN  /\ gpu_usage' = r.usage
                  /\ gpu_memory_usage' = r.memory
                  /\ gpu_temp' = r.temp
                  /\ tick' = [tick EXCEPT
                                !.step = "gpu",
                                !.others = Some(Others),
                                !.util_failed =
                                    ~smi.ok \/ Len(smi.v) < 3
                                    \/ \E k \in 1..Len(smi.v) : smi.v[k] = None]
                  /\ pc' = "publish"
       ELSE IF _gpu_type = Some(GPU_TYPES[2])
       THEN IF _gpu_card_id # None /\ _gpu_hwmon_id # None
            THEN \E f \in files :
                   IF f.ok /\ f.v # None
                   THEN /\ gpu_temp' = f.v[1]
                        /\ pc' = "publish"
                        /\ UNCHANGED <<gpu_usage, gpu_memory_usage>>
                        /\ tick' = [tick EXCEPT !.step = "gpu",
                                                !.others = Some(Others)]
                   ELSE /\ UNCHANGED gpuVars
                        /\ tick' = Raised([tick EXCEPT !.step = "gpu",
                                                       !.sensor_failed = "gpu"])
                        /\ pc' = Caught
            ELSE /\ pc' = "publish"
                 /\ tick' = [tick EXCEPT !.step = "gpu",
                                         !.others = Some(Others)]
                 /\ UNCHANGED gpuVars
       ELSE IF _gpu_type = Some(GPU_TYPES[3])
       THEN \E vc \in vcs :
              /\ gpu_temp' = RpiTemp(vc)
              /\ tick' = [tick EXCEPT
                            !.step = "gpu",
                            !.others = Some(Others),
                            !.util_failed = ~vc.ok \/ vc.v = None]
              /\ pc' = "publish"
              /\ UNCHANGED <<gpu_usage, gpu_memory_usage>>
       ELSE /\ pc' = "publish"
            /\ tick' = [tick EXCEPT !.step = "gpu", !.others = Some(Others)]
            /\ UNCHANGED gpuVars
    /\ UNCHANGED <<confVars, gauges, setupVars, idVars, netVars, ioVars,
                   procVars, tempVars, last>>

\* a reset that forgets the previous counters as well
clear_stats_and_baseline ==
    /\ pc = "except"
    /\ _net_intf_bytes_rec' = 0
    /\ _net_intf_bytes_trans' = 0
    /\ _io_device_sectors_read' = 0
    /\ _io_device_sectors_written' = 0
    /\ avg_cpu_usage' = 0
    /\ memory_load' = 0
    /\ uptime' = 0
    /\ net_rec_rate' = 0
    /\ net_trans_rate' = 0
    /\ io_bytes_read' = 0
    /\ io_bytes_written' = 0
    /\ gpu_usage' = 0
    /\ gpu_memory_usage' = 0
    /\ cpu_package_temp' = 0
    /\ nvme_composite_temp' = 0
    /\ gpu_temp' = 0
    /\ pc' = "loop"
    /\ _net_intf_bytes_rec_prev' = None
    /\ _net_intf_bytes_trans_prev' = None
    /\ _io_device_sectors_read_prev' = None
    /\ _io_device_sectors_written_prev' = None
    /\ UNCHANGED <<confVars, gauges, setupVars, idVars, histVars>>

\* a reset whose zeros are set on the gauges as well
clear_stats_published ==
    /\ pc = "except"
    /\ _net_intf_bytes_rec' = 0
    /\ _net_intf_bytes_trans' = 0
    /\ _io_device_sectors_read' = 0
    /\ _io_device_sectors_written' = 0
    /\ avg_cpu_usage' = 0
    /\ memory_load' = 0
    /\ uptime' = 0
    /\ net_rec_rate' = 0
    /\ net_trans_rate' = 0
    /\ io_bytes_read' = 0
    /\ io_bytes_written' = 0
    /\ gpu_usage' = 0
    /\ gpu_memory_usage' = 0
    /\ cpu_package_temp' = 0
    /\ nvme_composite_temp' = 0
    /\ gpu_temp' = 0
    /\ gauges' = [g \in DOMAIN gauges |->
                    IF gauges[g] = None THEN None ELSE Some(Float(0))]
    /\ pc' = "loop"
    /\ UNCHANGED <<confVars, setupVars, idVars,
                   _net_intf_bytes_rec_prev, _net_intf_bytes_trans_prev,
                   _io_device_sectors_read_prev,
                   _io_device_sectors_written_prev, histVars>>

\* os_stats.clear_stats, called by the except clause of flameglow.py lines
\* 115-116; the loop then goes back to its test
clear_stats ==
    /\ pc = "except"
    /\ _net_intf_bytes_rec' = 0
    /\ _net_intf_bytes_trans' = 0
    /\ _io_device_sectors_read' = 0
    /\ _io_device_sectors_written' = 0
    /\ avg_cpu_usage' = 0
    /\ memory_load' = 0
    /\ uptime' = 0
    /\ net_rec_rate' = 0
    /\ net_trans_rate' = 0
    /\ io_bytes_read' = 0
    /\ io_bytes_written' = 0
    /\ gpu_usage' = 0
    /\ gpu_memory_usage' = 0
    /\ cpu_package_temp' = 0
    /\ nvme_composite_temp' = 0
    /\ gpu_temp' = 0
    /\ pc' = "loop"
    /\ UNCHANGED <<confVars, gauges, setupVars, idVars,
                   _net_intf_bytes_rec_prev, _net_intf_bytes_trans_prev,
                   _io_device_sectors_read_prev,
                   _io_device_sectors_written_prev, histVars>>

\* flameglow.py lines 94-96: the first three gauges are set
Publish ==
    /\ pc = "publish"
    /\ gauges' = [gauges EXCEPT
                    !.avg_cpu_usage = Some(Float(avg_cpu_usage)),
                    !.memory_load = Some(Float(memory_load)),
                    !.uptime = Some(Float(uptime))]
    /\ pc' = "publish_rates"
    /\ UNCHANGED <<confVars, setupVars, idVars, netVars, ioVars, procVars,
                   gpuVars, tempVars, histVars>>

\* lines 98-101: the four rates, each divided by the interval; the division
\* by a missing or zero interval raises before any of them is set
PublishRates ==
    /\ pc = "publish_rates"
    /\ LET I == STATS_COLLECTION_INTERVAL
       IN  IF I = None \/ I = Some(0)
           THEN /\ UNCHANGED gauges
                /\ tick' = [tick EXCEPT !.pub_failed = TRUE]
                /\ pc' = Caught
           ELSE /\ gauges' =
                     [gauges EXCEPT
                        !.rec_rate = Some(Divide(net_rec_rate, I[1])),
                        !.trans_rate = Some(Divide(net_trans_rate, I[1])),
                        !.io_read_rate = Some(Divide(io_bytes_read, I[1])),
                        !.io_write_rate = Some(Divide(io_bytes_written, I[1]))]
                /\ UNCHANGED tick
                /\ pc' = "publish_sensors"
    /\ UNCHANGED <<confVars, setupVars, idVars, netVars, ioVars, procVars,
                   gpuVars, tempVars, last>>

\* lines 103-107: the temperature gauges that exist
PublishSensors ==
    /\ pc = "publish_sensors"
    /\ gauges' =
         [gauges EXCEPT
            !.cpu_package_temp = Some(Float(cpu_package_temp)),
            !.gpu_temp =
                IF GPU_TYPE # None /\ GPU_TYPE[1] \in SUPPORTED_GPU_TYPES
                THEN Some(Float(gpu_temp)) ELSE @,
            !.nvme_composite_temp =
                IF Contains(IO_DEV_NAME[1], NVME_DEVICE_NAME)
                THEN Some(Float(nvme_composite_temp)) ELSE @]
    /\ pc' = "sleep"
    /\ UNCHANGED <<confVars, setupVars, idVars, netVars, ioVars, procVars,
                   gpuVars, tempVars, histVars>>

\* flameglow.py line 109
Sleep ==
    /\ pc = "sleep"
    /\ pc' = "loop"
    /\ tick' = [tick EXCEPT !.slept = TRUE]
    /\ UNCHANGED <<confVars, gauges, setupVars, idVars, netVars, ioVars,
                   procVars, gpuVars, tempVars, last>>

\* the positions of the main thread inside the loop of lines 90-116
TickPcs ==
    {"meminfo", "uptime", "net_dev", "io_dev", "cpu_temp", "nvme_temp", "gpu",
     "publish", "publish_rates", "publish_sensors", "except"}
LoopPcs == TickPcs \cup {"loop", "sleep"}

\* sigterm_handler / sigint_handler, lines 23-31: SystemExit is raised in the
\* main thread wherever it is.  The except Exception of collect_stats does
\* not catch it; the except SystemExit of line 111 ends the loop, and
\* outside the try it ends the process.  Inside the try of the nvidia and
\* raspberrypi steps the bare except swallows it and the call goes on.
Signal ==
    /\ pc \in LoopPcs
    /\ \/ /\ pc' = "stopped"
          /\ tick' = [tick EXCEPT !.interrupted = pc]
          /\ UNCHANGED gpuVars
       \/ /\ pc = "gpu"
          /\ _gpu_type \in {Some(GPU_TYPES[1]), Some(GPU_TYPES[3])}
          /\ IF _gpu_type = Some(GPU_TYPES[1])
             THEN gpu_usage' = 0 /\ gpu_memory_usage' = 0
             ELSE UNCHANGED <<gpu_usage, gpu_memory_usage>>
          /\ gpu_temp' = 0
          /\ tick' = [tick EXCEPT !.step = "gpu", !.others = Some(Others),
                                  !.util_failed = TRUE]
          /\ pc' = "publish"
    /\ UNCHANGED <<confVars, gauges, setupVars, idVars, netVars, ioVars,
                   procVars, tempVars, last>>

---------------------------------------------------------------------------
\* Environments: what the configuration, the sysfs tree, the pseudo-files
\* and the utilities can hold in a run.

ETH0 == <<"e", "t", "h", "0">>
ETH01 == <<"e", "t", "h", "0", "1">>
SDA == <<"s", "d", "a">>
SDA1 == <<"s", "d", "a", "1">>

NetLine(name, rx, tx) == [name |-> name, rx |-> rx, tx |-> tx]
IoLine(name, rd, wr) == [name |-> name, rd |-> rd, wr |-> wr]

\* the two counters of a line differ whenever they can: they sum to MaxCounter
Pairs == {<<c, MaxCounter - c>> : c \in Counters}

\* /proc/net/dev: unreadable; without a line for the interface; with its line
\* alone, numeric or with a field int() rejects; with the line of another
\* interface, whose name begins with the configured name, before it or in
\* its place
NetFiles(intf, other) ==
    {Failed, Ok(<<>>)}
    \cup {Ok(<<NetLine(intf, Some(p[1]), Some(p[2]))>>) : p \in Pairs}
    \cup {Ok(<<NetLine(intf, None, Some(0))>>)}
    \cup {Ok(<<NetLine(intf, Some(c), None)>>) : c \in Counters}
    \cup {Ok(<<NetLine(other, Some(p[1]), Some(p[2])),
               NetLine(intf, Some(p[2]), Some(p[1]))>>) : p \in Pairs}
    \cup {Ok(<<NetLine(other, Some(p[1]), Some(p[2]))>>) : p \in Pairs}

\* /proc/diskstats, likewise; the other line is the line of a partition
IoFiles(dev, other) ==
    {Failed, Ok(<<>>)}
    \cup {Ok(<<IoLine(dev, Some(p[1]), Some(p[2]))>>) : p \in Pairs}
    \cup {Ok(<<IoLine(dev, None, Some(0))>>)}
    \cup {Ok(<<IoLine(dev, Some(c), None)>>) : c \in Counters}
    \cup {Ok(<<IoLine(other, Some(p[1]), Some(p[2])),
               IoLine(dev, Some(p[2]), Some(p[1]))>>) : p \in Pairs}
    \cup {Ok(<<IoLine(other, Some(p[1]), Some(p[2]))>>) : p \in Pairs}

MemLine(label, n) == [label |-> label, value |-> Some(n)]

\* a host without sensors and without a GPU
PlainConf ==
    [interval |-> Some(2), host_type |-> Some("generic"),
     gpu_type |-> Some("none"), net_intf |-> Some(ETH0), io_dev |-> Some(SDA)]
EmptyTree == [thermal |-> <<>>, nvme |-> <<>>, drm |-> <<>>]

\* the counters vary; the rest of the host is fixed
RatesEnv ==
    [confs |-> {PlainConf},
     trees |-> {EmptyTree},
     lsblk |-> {Failed},
     loadavg |-> {Failed, Ok(<<42, 38, 30>>)},
     meminfo |-> {Ok(<<MemLine(MEMTOTAL, 3), MemLine(MEMAVAILABLE, 1)>>)},
     uptime |-> {Ok(<<Some(15)>>)},
     net_dev |-> NetFiles(ETH0, ETH01),
     diskstats |-> IoFiles(SDA, SDA1),
     cpu_temp |-> {Failed},
     nvme_temp |-> {Failed},
     gpu_temp |-> {Failed},
     nvidia_smi |-> {Failed},
     vcgencmd |-> {Failed}]

\* the same host when the interface and the device always have their line
LinesEnv ==
    [RatesEnv EXCEPT
       !.net_dev = {Failed}
           \cup {Ok(<<NetLine(ETH0, Some(p[1]), Some(p[2]))>>) : p \in Pairs},
       !.diskstats = {Failed}
           \cup {Ok(<<IoLine(SDA, Some(p[1]), Some(p[2]))>>) : p \in Pairs}]

\* the same host with an nvidia GPU or none, and with an interval of 0
StopConfs ==
    {[PlainConf EXCEPT !.interval = Some(i), !.gpu_type = Some(g)] :
        i \in {0, 2}, g \in {"none", "nvidia"}}
StopEnv ==
    [LinesEnv EXCEPT
       !.confs = StopConfs,
       !.nvidia_smi = {Failed, Ok(<<Some(7), Some(8), Some(60)>>)}]

\* the same host with a complete configuration and with configurations
\* that lack one key
PartialConfs ==
    {PlainConf,
     [PlainConf EXCEPT !.interval = None],
     [PlainConf EXCEPT !.host_type = None],
     [PlainConf EXCEPT !.gpu_type = None],
     [PlainConf EXCEPT !.net_intf = None],
     [PlainConf EXCEPT !.io_dev = None]}
ConfEnv == [LinesEnv EXCEPT !.confs = PartialConfs]

\* a serial number, and the names of a second disk and of a loop device
WD1 == <<"W", "D", "1">>
SDB == <<"s", "d", "b">>
LOOP0 == <<"l", "o", "o", "p", "0">>
BlockDevice(name, serial) == [name |-> name, serial |-> serial]

\* what lsblk --nodeps -J -o name,serial can give: a failed run or output
\* that json.loads or the key lookups reject; no device; the disk alone,
\* with its serial; the disk after a device without a serial (null) and
\* after a disk with another serial; two disks with the same serial; a disk
\* whose serial is spelled like the kernel name of another
Lsblks ==
    {Failed,
     Ok(<<>>),
     Ok(<<BlockDevice(SDA, Some(WD1))>>),
     Ok(<<BlockDevice(LOOP0, None), BlockDevice(SDB, Some(SDB)),
          BlockDevice(SDA, Some(WD1))>>),
     Ok(<<BlockDevice(SDB, Some(WD1)), BlockDevice(SDA, Some(WD1))>>),
     Ok(<<BlockDevice(SDB, Some(SDA)), BlockDevice(SDA, None)>>)}

\* the same host when io_device_name is a kernel name or a serial number
SerialConfs == {PlainConf, [PlainConf EXCEPT !.io_dev = Some(WD1)]}
SerialEnv ==
    [LinesEnv EXCEPT
       !.confs = SerialConfs,
       !.lsblk = Lsblks,
       !.diskstats = {Failed, Ok(<<>>)}
           \cup {Ok(<<IoLine(SDB, Some(p[2]), Some(p[1])),
                      IoLine(SDA, Some(p[1]), Some(p[2]))>>) : p \in Pairs}]

NVME0N1 == <<"n", "v", "m", "e", "0", "n", "1">>
HWMON0 == <<"h", "w", "m", "o", "n", "0">>
HWMON1 == <<"h", "w", "m", "o", "n", "1">>
AMDGPU == <<"a", "m", "d", "g", "p", "u">>
I915 == <<"i", "9", "1", "5">>

\* hosts of both types with each GPU vendor
SensorConfs ==
    {[interval |-> Some(2), host_type |-> Some(h), gpu_type |-> Some(g),
      net_intf |-> Some(ETH0), io_dev |-> Some(NVME0N1)] :
        h \in {"generic", "raspberrypi"},
        g \in {"nvidia", "amd", "raspberrypi", "none"}}

\* a directory entry that is a hwmon directory
NvmeEntry(name, temp1) == [name |-> name, is_dir |-> TRUE, temp1_input |-> temp1]
GpuEntry(name, label) == [name |-> name, is_dir |-> TRUE, label |-> label]

\* sysfs trees: with and without a matching thermal zone, an NVMe drive with
\* a composite temperature, a DRM card with an amdgpu monitor
SensorTrees ==
    {[thermal |-> th, nvme |-> nv, drm |-> dr] :
        th \in {<<>>,
                <<Ok("acpitz"), Ok("x86_pkg_temp")>>,
                <<Ok("cpu-thermal")>>},
        nv \in {<<>>,
                <<Ok(<<NvmeEntry(HWMON0, FALSE)>>),
                  Ok(<<NvmeEntry(HWMON1, TRUE)>>)>>},
        dr \in {<<>>,
                <<Failed>>,
                <<Ok(<<GpuEntry(HWMON0, Ok(I915))>>)>>,
                <<Ok(<<GpuEntry(HWMON1, Ok(AMDGPU))>>)>>}}

AMD == <<"a", "m", "d">>
ZoneFiles ==
    {Missing, Failed, Ok("acpitz"), Ok("x86_pkg_temp"), Ok("cpu-thermal")}

\* the listings of /sys/class/nvme: no drive, an unreadable drive, a gap
\* before the drive, a drive without and a drive with a temperature
NvmeTrees ==
    {<<>>,
     <<Failed>>,
     <<Missing, Ok(<<NvmeEntry(HWMON1, TRUE)>>)>>,
     <<Ok(<<NvmeEntry(HWMON0, FALSE)>>), Ok(<<NvmeEntry(HWMON1, TRUE)>>)>>}

\* card0 missing, unreadable or listed with monitors whose name file is
\* unreadable or holds 'amdgpu', another driver's name, a part of 'amdgpu'
\* or nothing
DrmTrees ==
    {<<>>,
     <<Missing>>,
     <<Failed>>,
     <<Ok(<<GpuEntry(HWMON0, Failed)>>)>>,
     <<Ok(<<GpuEntry(HWMON0, Ok(I915))>>)>>,
     <<Ok(<<GpuEntry(HWMON0, Ok(I915)), GpuEntry(HWMON1, Ok(AMDGPU))>>)>>,
     <<Ok(<<GpuEntry(HWMON0, Ok(AMD))>>)>>,
     <<Ok(<<GpuEntry(HWMON0, Ok(<<>>))>>)>>}

\* sysfs trees for the scans: up to MaxZones thermal zone indices, each
\* missing, unreadable or with a type label, on a host with or without an
\* NVMe drive; and every NVMe listing with every card listing
MaxZones == 3
DetectTrees ==
    {[thermal |-> th, nvme |-> nv, drm |-> <<>>] :
        th \in UNION {[1..n -> ZoneFiles] : n \in 0..MaxZones},
        nv \in {<<>>, <<Ok(<<NvmeEntry(HWMON1, TRUE)>>)>>}}
    \cup
    {[thermal |-> th, nvme |-> nv, drm |-> dr] :
        th \in {<<>>, <<Ok("x86_pkg_temp")>>},
        nv \in NvmeTrees, dr \in DrmTrees}

DetectConfs ==
    {[interval |-> Some(2), host_type |-> Some(h), gpu_type |-> Some(g),
      net_intf |-> Some(ETH0), io_dev |-> Some(NVME0N1)] :
        h \in {"generic", "raspberrypi"}, g \in {"amd", "none"}}

\* the sysfs tree varies; the pseudo-files and the sensor files do not
DetectEnv ==
    [confs |-> DetectConfs,
     trees |-> DetectTrees,
     lsblk |-> {Failed},
     loadavg |-> {Failed, Ok(<<42, 38, 30>>)},
     meminfo |-> {Ok(<<MemLine(MEMTOTAL, 3), MemLine(MEMAVAILABLE, 1)>>)},
     uptime |-> {Ok(<<Some(15)>>)},
     net_dev |-> {Ok(<<NetLine(ETH0, Some(1), Some(0))>>)},
     diskstats |-> {Ok(<<IoLine(NVME0N1, Some(1), Some(0))>>)},
     cpu_temp |-> {Ok(Some(41))},
     nvme_temp |-> {Ok(Some(35))},
     gpu_temp |-> {Ok(Some(52))},
     nvidia_smi |-> {Failed},
     vcgencmd |-> {Failed}]

\* the sensors, the GPU utilities and /proc/meminfo vary; the counters do not
SensorsEnv ==
    [confs |-> SensorConfs,
     trees |-> SensorTrees,
     lsblk |-> {Failed},
     loadavg |-> {Failed, Ok(<<42, 38, 30>>), Ok(<<100, 38, 30>>)},
     meminfo |-> {Failed,
                  Ok(<<MemLine(MEMTOTAL, 3), MemLine(MEMAVAILABLE, 1)>>),
                  Ok(<<MemLine(MEMTOTAL, 3)>>),
                  Ok(<<MemLine(MEMAVAILABLE, 1)>>),
                  Ok(<<>>)},
     uptime |-> {Ok(<<Some(15)>>)},
     net_dev |-> {Ok(<<NetLine(ETH0, Some(1), Some(0))>>)},
     diskstats |-> {Ok(<<IoLine(NVME0N1, Some(1), Some(0))>>)},
     cpu_temp |-> {Failed, Ok(None), Ok(Some(41))},
     nvme_temp |-> {Failed, Ok(Some(35))},
     gpu_temp |-> {Failed, Ok(Some(52))},
     nvidia_smi |-> {Failed, Ok(<<None>>), Ok(<<Some(7), None, Some(60)>>),
                     Ok(<<Some(7), Some(8)>>), Ok(<<Some(7), Some(8), None>>),
                     Ok(<<Some(7), Some(8), Some(60)>>)},
     vcgencmd |-> {Failed, Ok(None), Ok(Some(456))}]

Step(env) ==
    \/ Construct
    \/ MainSetters
    \/ set_network_interface
    \/ set_io_device(env.lsblk)
    \/ ReadLoadavg(env.loadavg)
    \/ ReadMeminfo(env.meminfo)
    \/ ReadUptime(env.uptime)
    \/ ReadNetDev(env.net_dev)
    \/ ReadIoDev(env.diskstats)
    \/ ReadCpuTemp(env.cpu_temp)
    \/ ReadNvmeTemp(env.nvme_temp)
    \/ ReadGpu(env.nvidia_smi, env.gpu_temp, env.vcgencmd)
    \/ Publish
    \/ PublishRates
    \/ PublishSensors
    \/ Sleep
    \/ clear_stats

\* the run of the process on a host without sensors whose counters vary
Next == Step(RatesEnv)
Spec == Init(RatesEnv.confs, RatesEnv.trees) /\ [][Next]_vars

\* the run of the process on hosts whose sensors vary
NextSensors == Step(SensorsEnv)
SpecSensors == Init(SensorsEnv.confs, SensorsEnv.trees) /\ [][NextSensors]_vars

\* the run of the process on a host whose pseudo-files, when they can be
\* read, always hold the line of the interface and of the device
NextLines == Step(LinesEnv)
SpecLines == Init(LinesEnv.confs, LinesEnv.trees) /\ [][NextLines]_vars

\* the run of the process when a stop signal can arrive
NextStop == Step(StopEnv) \/ Signal
SpecStop == Init(StopEnv.confs, StopEnv.trees) /\ [][NextStop]_vars

\* the run of the process under configurations that lack a key
NextConf == Step(ConfEnv)
SpecConf == Init(ConfEnv.confs, ConfEnv.trees) /\ [][NextConf]_vars

\* the run of the process when the I/O device is given by serial number
NextSerial == Step(SerialEnv)
SpecSerial == Init(SerialEnv.confs, SerialEnv.trees) /\ [][NextSerial]_vars

\* the run of the process on hosts whose sysfs tree varies
NextDetect == Step(DetectEnv)
SpecDetect == Init(DetectEnv.confs, DetectEnv.trees) /\ [][NextDetect]_vars


---------------------------------------------------------------------------
\* Properties.  collect_stats has returned when pc = "publish"; the rates
\* named below are the collector's snapshot fields, which Publish divides
\* by the interval.

NetRates == <<net_rec_rate, net_trans_rate>>
IoRates == <<io_bytes_read, io_bytes_written>>
NetPrev == <<_net_intf_bytes_rec_prev, _net_intf_bytes_trans_prev>>
IoPrev == <<_io_device_sectors_read_prev, _io_device_sectors_written_prev>>

\* C1: while every call succeeds and the configured interface has a line in
\* /proc/net/dev, the first call reports the rates 0 and 0 and a later call
\* reports the interface's received and transmitted counters of this call
\* minus those of the call before.
C1_RatesOfTheInterface ==
    (pc = "publish" /\ tick.clean /\ tick.net # None)
        => IF tick.n = 1
           THEN NetRates = <<0, 0>>
           ELSE last.net # None
                  => NetRates = <<tick.net[1][1] - last.net[1][1],
                                  tick.net[1][2] - last.net[1][2]>>

\* C2: while every call succeeds and a line of /proc/diskstats contains the
\* device name, the first call reports 0 and 0 and a later call reports the
\* sector counters of this call minus those of the call before, times 512.
C2_IoRatesInBytes ==
    (pc = "publish" /\ tick.clean /\ tick.io_cap # None)
        => IF tick.n = 1
           THEN IoRates = <<0, 0>>
           ELSE last.io_cap # None
                  => IoRates = <<(tick.io_cap[1][1] - last.io_cap[1][1]) * 512,
                                 (tick.io_cap[1][2] - last.io_cap[1][2]) * 512>>

\* a second successful call whose sector counters moved since the first
C2_Witness ==
    /\ pc = "publish" /\ tick.clean /\ tick.n = 2
    /\ tick.io_cap # None /\ last.io_cap # None
    /\ io_bytes_read = 512 /\ io_bytes_written = -512

\* C3: the call that follows a failed call and the driver's clear_stats
\* behaves like a first call: it reports all four rates as 0 and stores the
\* counters it read as the new previous counters.
C3_FirstTickAfterFailure ==
    (pc = "publish" /\ last.failed)
        => /\ NetRates = <<0, 0>>
           /\ IoRates = <<0, 0>>
           /\ tick.net_cap # None
                => NetPrev = <<Some(tick.net_cap[1][1]),
                               Some(tick.net_cap[1][2])>>
           /\ tick.io_cap # None
                => IoPrev = <<Some(tick.io_cap[1][1]),
                              Some(tick.io_cap[1][2])>>

\* C4: a rate reported by a call is 0 because the call is the first, or it
\* is the difference between the counters read in this call and those read
\* in the call immediately before; never a difference over more than one
\* interval.
C4_OneIntervalDelta ==
    /\ (pc = "publish" /\ tick.net_cap # None)
         => IF tick.n = 2 /\ last.net_cap # None
            THEN NetRates = <<tick.net_cap[1][1] - last.net_cap[1][1],
                              tick.net_cap[1][2] - last.net_cap[1][2]>>
            ELSE NetRates = <<0, 0>>
    /\ (pc = "publish" /\ tick.io_cap # None)
         => IF tick.n = 2 /\ last.io_cap # None
            THEN IoRates =
                   <<(tick.io_cap[1][1] - last.io_cap[1][1]) * IO_SECTOR_SIZE,
                     (tick.io_cap[1][2] - last.io_cap[1][2]) * IO_SECTOR_SIZE>>
            ELSE IoRates = <<0, 0>>

BeforeNet == {"loadavg", "meminfo", "uptime", "net_dev"}
BeforeIo == BeforeNet \cup {"io_dev"}

\* C5: a call that raises before it has read the network (the disk)
\* counters leaves the stored previous counters as they were when it began,
\* and so does clear_stats; the next call that returns computes its rates
\* against those same previous counters.
C5_BaselineSurvivesFailure ==
    /\ (tick.failed /\ tick.step \in BeforeNet) => NetPrev = tick.net_base
    /\ (tick.failed /\ tick.step \in BeforeIo) => IoPrev = tick.io_base
    /\ (pc = "publish" /\ last.failed /\ last.step \in BeforeNet
          /\ last.net_base # <<None, None>>)
         => NetRates = <<_net_intf_bytes_rec - last.net_base[1][1],
                         _net_intf_bytes_trans - last.net_base[2][1]>>
    /\ (pc = "publish" /\ last.failed /\ last.step \in BeforeIo
          /\ last.io_base # <<None, None>>)
         => IoRates =
              <<(_io_device_sectors_read - last.io_base[1][1]) * IO_SECTOR_SIZE,
                (_io_device_sectors_written - last.io_base[2][1])
                    * IO_SECTOR_SIZE>>

\* a call returned after a call that raised at /proc/loadavg, and its rates
\* are the counters it read minus the ones stored before the failure
C5_Witness ==
    /\ pc = "publish" /\ last.failed /\ last.step = "loadavg"
    /\ last.net_base = <<Some(0), Some(1)>> /\ tick.net_cap = Some(<<1, 0>>)
    /\ NetRates = <<1, -1>>
    /\ last.io_base # <<None, None>> /\ tick.io_cap # None

\* C6: the stored previous counters only ever change to values the scan of
\* the pseudo-file read in the call that stores them.
C6_BaselineIsARead ==
    [][/\ NetPrev' # NetPrev
          => /\ tick'.net_cap # None
             /\ NetPrev' = <<Some(tick'.net_cap[1][1]),
                             Some(tick'.net_cap[1][2])>>
       /\ IoPrev' # IoPrev
          => /\ tick'.io_cap # None
             /\ IoPrev' = <<Some(tick'.io_cap[1][1]),
                            Some(tick'.io_cap[1][2])>>]_vars

GpuFields == <<gpu_usage, gpu_memory_usage, gpu_temp>>

\* C7: when the vendor is nvidia or raspberrypi and the utility, or the
\* parse of a field of its output, fails, the call returns with gpu_usage,
\* gpu_memory_usage and gpu_temp all 0, and every other field of the
\* snapshot is what the earlier steps of the same call stored.
C7_UtilityFailureZeroesGpu ==
    tick.util_failed
        => /\ ~tick.failed
           /\ pc \in {"publish", "publish_rates", "publish_sensors", "sleep",
                     "loop"}
           /\ GpuFields = <<0, 0, 0>>
           /\ Others = tick.others[1]
           /\ avg_cpu_usage = tick.load[1]
           /\ uptime = IntOfFloat(tick.up[1])

\* the nvidia utility, or the parse of its output, failed in a call that
\* read the load and both temperature sensors
C7_Witness ==
    /\ pc = "publish" /\ tick.util_failed /\ _gpu_type = Some("nvidia")
    /\ avg_cpu_usage = 42 /\ cpu_package_temp = 41 /\ nvme_composite_temp = 35
    /\ gpu_temp = 0

\* C8: when the read of a resolved sensor file (CPU thermal zone, NVMe, sysfs
\* GPU) fails, collect_stats does not raise: the call goes on to return.
C8_SensorFailureIsLocal ==
    tick.sensor_failed # "none" => ~tick.failed /\ pc # "except"

\* C9: a sensor whose identifiers detection left unresolved (CPU thermal
\* zone; NVMe pair; the sysfs pair of a GPU read through sysfs) keeps its
\* metric at 0 after every step after construction, its step never makes
\* collect_stats raise, and no step after construction assigns an identifier.
C9_UnresolvedSensorReportsZero ==
    [][pc # "start"
         => /\ UNCHANGED idVars
            /\ _cpu_thermal_zone_id = None
                 => cpu_package_temp' = 0 /\ tick'.sensor_failed # "cpu"
            /\ (_nvme_drive_id = None \/ _nvme_hwmon_id = None)
                 => nvme_composite_temp' = 0 /\ tick'.sensor_failed # "nvme"
            /\ (_gpu_type = Some(GPU_TYPES[2])
                  /\ (_gpu_card_id = None \/ _gpu_hwmon_id = None))
                 => gpu_temp' = 0 /\ tick'.sensor_failed # "gpu"]_vars

\* a second call returned on a host with an NVMe sensor and no matching
\* thermal zone
C9_Witness ==
    /\ pc = "publish" /\ tick.n = 2 /\ ~tick.failed
    /\ _cpu_thermal_zone_id = None /\ cpu_package_temp = 0
    /\ _nvme_drive_id # None /\ nvme_composite_temp = 35
    /\ _gpu_type = Some(GPU_TYPES[2]) /\ _gpu_card_id = None /\ gpu_temp = 0

\* C10: when /proc/meminfo lacks the MemTotal line or the MemAvailable line
\* the call raises.
C10_MissingLabelFailsTick ==
    tick.mem_missing => tick.failed

\* C11: a stop signal that arrives while a call of collect_stats, the
\* publication of its snapshot or the handling of its failure is under way
\* does not end the run there: the run ends only between two ticks.
C11_StopsBetweenTicks ==
    pc = "stopped" => tick.interrupted \in {"loop", "sleep"}

\* the gauges as the snapshot that the collector holds would set them
SnapshotGauges ==
    [gauges EXCEPT
       !.avg_cpu_usage = Some(Float(avg_cpu_usage)),
       !.memory_load = Some(Float(memory_load)),
       !.uptime = Some(Float(uptime)),
       !.rec_rate = Some(Divide(net_rec_rate, STATS_COLLECTION_INTERVAL[1])),
       !.trans_rate = Some(Divide(net_trans_rate, STATS_COLLECTION_INTERVAL[1])),
       !.io_read_rate = Some(Divide(io_bytes_read, STATS_COLLECTION_INTERVAL[1])),
       !.io_write_rate =
           Some(Divide(io_bytes_written, STATS_COLLECTION_INTERVAL[1])),
       !.cpu_package_temp = Some(Float(cpu_package_temp)),
       !.gpu_temp = IF @ = None THEN @ ELSE Some(Float(gpu_temp)),
       !.nvme_composite_temp =
           IF @ = None THEN @ ELSE Some(Float(nvme_composite_temp))]

\* C12: what a scrape can read is always the complete snapshot of one tick:
\* whenever the gauges change, they change to the whole snapshot of the
\* call that has just returned.
C12_GaugesAreOneSnapshot ==
    [][gauges' # gauges => gauges' = SnapshotGauges']_vars

\* C13: inside the loop an exception of collect_stats or of the publication
\* never ends the run: the main thread stays in the loop until a stop
\* signal ends it.
C13_OnlyAStopEndsTheLoop ==
    [][(pc \in LoopPcs)
         => \/ pc' \in LoopPcs
            \/ (pc' = "stopped" /\ tick'.interrupted # "none")]_vars

\* a publication raised, the next call of collect_stats raised, and the
\* main thread is at the loop test again
C13_Witness ==
    pc = "loop" /\ tick.n = 2 /\ tick.failed /\ last.pub_failed

\* C14: between two consecutive calls of collect_stats the driver sleeps
\* once, whether the earlier call returned or raised.
C14_SleepBetweenCalls ==
    tick.n = 2 => last.slept

\* C15: after a call that raised, and the clear_stats that follows, it is
\* never so that the previous network counters have moved on to the
\* counters of that call while the previous sector counters are still
\* those of an earlier call.
C15_BaselinesMoveTogether ==
    (pc = "loop" /\ tick.failed)
        => ~ /\ tick.net_cap # None
             /\ NetPrev = <<Some(tick.net_cap[1][1]), Some(tick.net_cap[1][2])>>
             /\ NetPrev # tick.net_base
             /\ tick.io_base # <<None, None>>
             /\ IoPrev = tick.io_base

\* C16: an error met while a scan of the constructor probes sysfs (a type
\* file, a drive or card directory, a name file that cannot be read) never
\* makes the constructor raise.
C16_ProbeErrorIsNotFatal ==
    pc # "init_raised"

C18_ScansTerminate ==
    pc # "init_hung"

\* C19: the GPU scan accepts a monitor only if its name file holds 'amdgpu'.
C19_OnlyAmdgpuAccepted ==
    _gpu_hwmon_id # None
        => \E k \in 1..Len(sysfs.drm[1].v) :
             LET e == sysfs.drm[1].v[k] IN
             /\ SliceFrom(e.name, 5) = _gpu_hwmon_id[1]
             /\ e.label.ok
             /\ e.label.v = <<"a", "m", "d", "g", "p", "u">>

\* the number of thermal zone indices that exist from 0 on without a gap
ZoneRun ==
    CHOOSE n \in 0..Len(sysfs.thermal) :
        /\ \A j \in 1..n : sysfs.thermal[j] # Missing
        /\ n = Len(sysfs.thermal) \/ sysfs.thermal[n + 1] = Missing
\* the label the host type asks for
ExpectedZoneType ==
    IF _host_type = Some("raspberrypi") THEN "cpu-thermal" ELSE "x86_pkg_temp"
\* the indices of that run whose type file holds the label
MatchingZones ==
    {i \in 0..(ZoneRun - 1) :
        sysfs.thermal[i + 1].ok /\ sysfs.thermal[i + 1].v = ExpectedZoneType}
FirstMatchingZone == CHOOSE i \in MatchingZones : \A j \in MatchingZones : i <= j
\* every type file the scan has to read can be read
ZonesReadable ==
    \A j \in 1..(IF MatchingZones = {} THEN ZoneRun ELSE FirstMatchingZone + 1) :
        sysfs.thermal[j].ok
NvmeReadable ==
    \A j \in 1..Len(sysfs.nvme) : sysfs.nvme[j] = Missing \/ sysfs.nvme[j].ok

\* C20: the thermal zone identifier is the smallest index of the run of
\* existing zones whose type is 'cpu-thermal' on a raspberrypi host and
\* 'x86_pkg_temp' on any other, and None when the run has no such zone; the
\* constructor goes on in both cases.
C20_FirstMatchingZone ==
    (pc # "start" /\ ZonesReadable)
        => /\ _cpu_thermal_zone_id =
                IF MatchingZones = {} THEN None ELSE Some(FirstMatchingZone)
           /\ (NvmeReadable /\ _gpu_type # Some("amd"))
                => pc \notin {"init_raised", "init_hung"}

\* a raspberrypi host whose zone 0 has the generic label and zone 1 the
\* Pi's, and a generic host whose only matching zone lies behind a gap
C20_Witness ==
    /\ pc = "loop"
    /\ \/ /\ _host_type = Some("raspberrypi")
          /\ sysfs.thermal = <<Ok("x86_pkg_temp"), Ok("cpu-thermal")>>
          /\ _cpu_thermal_zone_id = Some(1)
       \/ /\ _host_type = Some("generic")
          /\ sysfs.thermal = <<Missing, Ok("x86_pkg_temp")>>
          /\ _cpu_thermal_zone_id = None

\* C21: in every state the NVMe drive and hwmon identifiers are both None or
\* both set, so are the GPU card and hwmon identifiers, and the GPU
\* identifiers are set only when the configured GPU vendor is amd.
C21_IdentifiersArePaired ==
    /\ (_nvme_drive_id = None) <=> (_nvme_hwmon_id = None)
    /\ (_gpu_card_id = None) <=> (_gpu_hwmon_id = None)
    /\ _gpu_card_id # None => GPU_TYPE = Some(GPU_TYPES[2])

\* a constructed collector whose vendor is not amd on a host with an NVMe
\* sensor and with a card whose monitor is named amdgpu
C21_Witness ==
    /\ pc = "constructed" /\ GPU_TYPE = Some("none")
    /\ sysfs.drm = <<Ok(<<GpuEntry(HWMON0, Ok(I915)),
                          GpuEntry(HWMON1, Ok(AMDGPU))>>)>>
    /\ _nvme_drive_id = Some(1) /\ _nvme_hwmon_id = Some(<<"1">>)
    /\ _gpu_card_id = None /\ _gpu_hwmon_id = None

\* the listed devices whose serial is the configured value
SerialMatches(blockdevices) ==
    {k \in 1..Len(blockdevices) : blockdevices[k].serial = IO_DEV_NAME}

\* C22: set_io_device(v) does not raise and leaves the device name set: when
\* the enumeration succeeded and a listed device has the serial v, to the
\* kernel name of such a device (the first listed); when the utility or the
\* parse of its output failed, or no serial is v, to v itself.
C22_IoDeviceAlwaysSet ==
    /\ pc \in LoopPcs => _io_device # None
    /\ (pc = "loop" /\ tick.n = 0)
         => LET lsblk == tick.lsblk[1] IN
            IF lsblk.ok /\ SerialMatches(lsblk.v) # {}
            THEN LET k == CHOOSE m \in SerialMatches(lsblk.v) :
                            \A o \in SerialMatches(lsblk.v) : m <= o
                 IN  _io_device = Some(lsblk.v[k].name)
            ELSE _io_device = IO_DEV_NAME

\* the configured serial is that of the third listed device, and the setter
\* stored that device's kernel name
C22_Witness ==
    /\ pc = "loop" /\ tick.n = 0 /\ IO_DEV_NAME = Some(WD1)
    /\ tick.lsblk = Some(Ok(<<BlockDevice(LOOP0, None),
                              BlockDevice(SDB, Some(SDB)),
                              BlockDevice(SDA, Some(WD1))>>))
    /\ _io_device = Some(SDA)

\* C23: the network counters a call takes are those of the line of
\* /proc/net/dev whose leading token equals the configured interface name;
\* the line of an interface whose name only begins with it is never used.
C23_ExactInterfaceLine ==
    tick.net_cap # None => tick.net_cap = tick.net

\* C24: with a complete configuration startup reaches the collection loop,
\* and when the first collect_stats call is made the collector's interface
\* name and device name are set.
C24_StartupReachesTheLoop ==
    (/\ STATS_COLLECTION_INTERVAL # None /\ HOST_TYPE # None
     /\ GPU_TYPE # None /\ NET_INTF_NAME # None /\ IO_DEV_NAME # None)
        => /\ pc # "crashed"
           /\ tick.n = 1 => _net_intf # None /\ _io_device # None

\* the positions of the main thread inside collect_stats
CollectPcs ==
    {"meminfo", "uptime", "net_dev", "io_dev", "cpu_temp", "nvme_temp", "gpu"}

\* C25: a call of collect_stats that raises, and the clear_stats that
\* follows it, leave every gauge as it was: no step of collect_stats and no
\* step taken in a call that has raised sets a gauge.
C25_FailedTickKeepsGauges ==
    [][/\ (pc \in CollectPcs \cup {"loop", "except"}) => gauges' = gauges
       /\ tick'.failed => gauges' = gauges]_vars

\* the second call raised and clear_stats zeroed the fields, and the gauges
\* still hold what the first call published
C25_Witness ==
    /\ pc = "loop" /\ tick.n = 2 /\ tick.failed /\ ~last.failed
    /\ avg_cpu_usage = 0 /\ gauges.avg_cpu_usage = Some(Float(42))
    /\ uptime = 0 /\ gauges.uptime = Some(Float(1))
    /\ memory_load = 0 /\ gauges.memory_load = Some(Float(2))

\* C26: a call that finds no line for the interface in /proc/net/dev (for
\* the device in /proc/diskstats) reports the network (I/O) rates 0 and 0,
\* whatever calls came before it.
C26_NoLineReportsZero ==
    /\ (pc = "publish" /\ tick.net_cap = None) => NetRates = <<0, 0>>
    /\ (pc = "publish" /\ tick.io_cap = None) => IoRates = <<0, 0>>

====
